---- MODULE Spec2Model ----
(***************************************************************************)
(* Model of the WebScout backend (src/backend/agent.py, src/backend/main.py) *)
(*                                                                         *)
(* Strings are modelled in two exact encodings of a Python str:            *)
(*   Text : a sequence of characters (titles, urls, narrative, report);    *)
(*          a multi-line program literal is kept as one element;           *)
(*   Runs : a run-length encoded string, a sequence of [c, n] with no two  *)
(*          adjacent runs of the same character (content and context,      *)
(*          which reach the 15000-character cap).                          *)
(***************************************************************************)
EXTENDS Integers, Sequences, FiniteSets, TLC

VARIABLES
    pc,                 \* position of the call / request being served
    plan,               \* research(): plan returned by plan_research
    raw_results,        \* list of {url, title, content, query}
    llm_filter,         \* outcome of the filter's completion call
    relevant_indices,   \* filter_results: the selection (0-based indices)
    context,            \* filter_results: returned context (Runs)
    sources,            \* filter_results: returned sources
    filter_calls,       \* number of filter completion calls issued
    narrative,          \* outcome of the narrative completion call
    llm_calls,          \* number of narrative completion calls issued
    report,             \* generate_report: returned report (Text)
    response,           \* research(): the HTTP response
    ext_failed          \* research(): an external call raised in this request

vars == <<pc, plan, raw_results, llm_filter, relevant_indices, context, sources,
          filter_calls, narrative, llm_calls, report, response, ext_failed>>

----------------------------------------------------------------------------
(* Bounds of the model *)

MaxResults == 4     \* longest raw_results passed to filter_results directly
MaxResp == 2        \* longest relevant_indices list the filter call returns
MaxSources == 2     \* longest sources list passed to generate_report directly
MaxNarr == 3        \* longest exhaustively enumerated narrative
MaxQueries == 2     \* longest plan the planner returns

(* Program constants *)

CONTEXT_CAP == 15000        \* agent.py:203-204
FALLBACK_TOP == 3           \* agent.py:179
EXCEPT_TOP == 3             \* agent.py:175
MAX_RESULTS_PER_QUERY == 5  \* agent.py:86
GenerateReportParams == 3   \* agent.py:213  def generate_report(query, context, sources)

Min(a, b) == IF a < b THEN a ELSE b

----------------------------------------------------------------------------
(* Text: sequences of characters *)

DigitChars == <<"0", "1", "2", "3", "4", "5", "6", "7", "8", "9">>

DigitValue(ch) == (CHOOSE d \in 1..10 : DigitChars[d] = ch) - 1

\* str(n) / f"{n}" for n >= 0
RECURSIVE Str(_)
Str(n) ==
    IF n < 10 THEN <<DigitChars[n + 1]>>
    ELSE Str(n \div 10) \o <<DigitChars[(n % 10) + 1]>>

\* s[i:] starts with pat
StartsAt(s, i, pat) ==
    /\ i + Len(pat) - 1 <= Len(s)
    /\ \A j \in 1..Len(pat) : s[i + j - 1] = pat[j]

\* pat in s
Contains(s, pat) == \E i \in 1..(Len(s) + 1) : StartsAt(s, i, pat)

EndsWith(s, pat) ==
    /\ Len(pat) <= Len(s)
    /\ StartsAt(s, Len(s) - Len(pat) + 1, pat)

----------------------------------------------------------------------------
(* Runs: run-length encoded strings *)

RECURSIVE RLen(_)
RLen(r) == IF r = <<>> THEN 0 ELSE r[1].n + RLen(Tail(r))

\* a + b
RCat(a, b) ==
    IF a = <<>> THEN b
    ELSE IF b = <<>> THEN a
    ELSE IF a[Len(a)].c = b[1].c
         THEN SubSeq(a, 1, Len(a) - 1)
              \o <<[c |-> b[1].c, n |-> a[Len(a)].n + b[1].n]>>
              \o Tail(b)
         ELSE a \o b

\* ch * k
Rep(ch, k) == IF k = 0 THEN <<>> ELSE <<[c |-> ch, n |-> k]>>

\* the Runs encoding of a Text
RECURSIVE RunsOf(_)
RunsOf(t) == IF t = <<>> THEN <<>> ELSE RCat(Rep(t[1], 1), RunsOf(Tail(t)))

\* r[:k]
RECURSIVE RTake(_, _)
RTake(r, k) ==
    IF k <= 0 \/ r = <<>> THEN <<>>
    ELSE IF r[1].n >= k THEN <<[c |-> r[1].c, n |-> k]>>
    ELSE <<r[1]>> \o RTake(Tail(r), k - r[1].n)

\* r.endswith(suffix), for a suffix whose first run differs from what precedes it
REndsWith(r, suffix) ==
    /\ Len(suffix) <= Len(r)
    /\ LET off == Len(r) - Len(suffix)
       IN /\ \A j \in 2..Len(suffix) : r[off + j] = suffix[j]
          /\ r[off + 1].c = suffix[1].c
          /\ r[off + 1].n >= suffix[1].n

Whitespace == {" ", "\n", "\t", "\r"}

\* context.strip() == ""
StripIsEmpty(r) == \A i \in 1..Len(r) : r[i].c \in Whitespace

----------------------------------------------------------------------------
(* Raw results, as execute_search builds them (agent.py:90-95) *)

TitleOf(i) == <<"T">> \o Str(i)
UrlOf(i) == <<"u">> \o Str(i)

\* The kinds of document a search returns: a content length and whether the
\* record has a url.  "[1]: " is 5 characters, so a single block of an "exact"
\* document is CONTEXT_CAP characters long and one of an "over" document is
\* one more.
DocKinds == {"short", "exact", "over"}

ContentLen(kind) ==
    CASE kind = "short" -> 3
      [] kind = "exact" -> CONTEXT_CAP - 5
      [] kind = "over"  -> CONTEXT_CAP - 4

MakeResult(i, kind, q) ==
    [url     |-> IF kind = "exact" THEN <<>> ELSE UrlOf(i),
     title   |-> TitleOf(i),
     content |-> Rep("a", ContentLen(kind)),
     query   |-> q]

RawResultLists ==
    UNION { { [i \in 1..n |-> MakeResult(i, kinds[i], "q")] :
                kinds \in [1..n -> DocKinds] } : n \in 0..MaxResults }

----------------------------------------------------------------------------
(* The filter's completion call and its parsing (agent.py:136-179) *)

\* A JSON value in the relevant_indices list: an int, a bool (an int to
\* Python's isinstance), or anything else (a string, a float, null).
Items(n) ==
    { [t |-> "int", v |-> i] : i \in -1..n }
    \cup { [t |-> "bool", v |-> 1], [t |-> "other", v |-> 0] }

RECURSIVE SeqsUpTo(_, _)
SeqsUpTo(S, k) ==
    IF k = 0 THEN { <<>> }
    ELSE LET shorter == SeqsUpTo(S, k - 1)
         IN shorter \cup { Append(s, x) : s \in { t \in shorter : Len(t) = k - 1 }, x \in S }

\* What the completion call can do:
\*   raise        create() raises
\*   badjson      the content is not JSON: json.loads raises
\*   notdict      the JSON is not an object: .get raises AttributeError
\*   nokey        the object has no relevant_indices: .get returns []
\*   notiterable  relevant_indices is null or a number: the comprehension raises
\*   list         relevant_indices is a list of items
FilterOutcomes(n) ==
    { [kind |-> k, items |-> <<>>] : k \in {"raise", "badjson", "notdict", "nokey", "notiterable"} }
    \cup { [kind |-> "list", items |-> s] : s \in SeqsUpTo(Items(n), MaxResp) }

\* isinstance(i, int) and 0 <= i < len(raw_results)        agent.py:170
IsValidIndex(item, n) == item.t \in {"int", "bool"} /\ 0 <= item.v /\ item.v < n

ValidateIndices(items, n) ==
    LET Keep(item) == IsValidIndex(item, n)
        kept == SelectSeq(items, Keep)
    IN [j \in 1..Len(kept) |-> kept[j].v]

\* list(range(min(3, len(raw_results))))                     agent.py:175
ExceptFallback(n) == [j \in 1..Min(EXCEPT_TOP, n) |-> j - 1]

\* the try block and its except clause                       agent.py:136-175
TryFilter(resp, n) ==
    CASE resp.kind \in {"raise", "badjson", "notdict", "notiterable"} -> ExceptFallback(n)
      [] resp.kind = "nokey" -> <<>>
      [] resp.kind = "list"  -> ValidateIndices(resp.items, n)

\* EmptyFallback without the second fallback: an empty selection is kept
EmptyFallback_Missing(indices, n) == indices

\* if not relevant_indices: ... top 3                        agent.py:178-179
EmptyFallback(indices, n) ==
    IF indices = <<>> THEN [j \in 1..Min(FALLBACK_TOP, n) |-> j - 1] ELSE indices

RelevantIndices(resp, n) == EmptyFallback(TryFilter(resp, n), n)

----------------------------------------------------------------------------
(* Sources and context (agent.py:181-206) *)

\* BuildSources numbering by position in raw_results instead of selection order
BuildSources_DocumentOrder(raw, sel) ==
    [j \in 1..Len(sel) |->
        [num |-> sel[j] + 1, title |-> raw[sel[j] + 1].title, url |-> raw[sel[j] + 1].url]]

BuildSources(raw, sel) ==
    [j \in 1..Len(sel) |->
        [num |-> j, title |-> raw[sel[j] + 1].title, url |-> raw[sel[j] + 1].url]]

\* f"[{source_number}]: {content}"
ContextBlock(num, content) ==
    RCat(RunsOf(<<"[">> \o Str(num) \o <<"]", ":", " ">>), content)

ContextParts(raw, sel) ==
    [j \in 1..Len(sel) |-> ContextBlock(j, raw[sel[j] + 1].content)]

\* "\n\n".join(parts)
RECURSIVE JoinParts(_)
JoinParts(parts) ==
    IF parts = <<>> THEN <<>>
    ELSE IF Len(parts) = 1 THEN parts[1]
    ELSE RCat(RCat(parts[1], Rep("\n", 2)), JoinParts(Tail(parts)))

\* "\n\n[Content truncated...]"
TruncationMarker ==
    RunsOf(<<"\n", "\n", "[", "C", "o", "n", "t", "e", "n", "t", " ", "t", "r", "u",
             "n", "c", "a", "t", "e", "d", ".", ".", ".", "]">>)

\* Truncate with >= in place of >
Truncate_AtCap(ctx) ==
    IF RLen(ctx) >= CONTEXT_CAP THEN RCat(RTake(ctx, CONTEXT_CAP), TruncationMarker)
    ELSE ctx

\* if len(context) > 15000: context = context[:15000] + marker     agent.py:203-204
Truncate(ctx) ==
    IF RLen(ctx) > CONTEXT_CAP THEN RCat(RTake(ctx, CONTEXT_CAP), TruncationMarker)
    ELSE ctx

\* filter_results(query, raw_results) with the completion call's outcome resp.
\* The summaries of lines 127-133 only feed the prompt and are not modelled.
filter_results(raw, resp) ==
    IF raw = <<>>
    THEN [context |-> <<>>, sources |-> <<>>, selection |-> <<>>, calls |-> 0]
    ELSE LET sel == RelevantIndices(resp, Len(raw))
         IN [context   |-> Truncate(JoinParts(ContextParts(raw, sel))),
             sources   |-> BuildSources(raw, sel),
             selection |-> sel,
             calls     |-> 1]

NoOutcome == [kind |-> "none"]

----------------------------------------------------------------------------
(* re.sub on a Text *)

\* length of the longest run of characters of class S starting at s[i]
RunLen(s, i, S) ==
    CHOOSE k \in 0..(Len(s) - i + 1) :
        /\ \A j \in 0..(k - 1) : s[i + j] \in S
        /\ (i + k > Len(s) \/ s[i + k] \notin S)

Digits == { DigitChars[d] : d \in 1..10 }

\* first index >= from where s holds ch, 0 when there is none
IndexFrom(s, from, ch) ==
    IF \E j \in from..Len(s) : s[j] = ch
    THEN CHOOSE j \in from..Len(s) : s[j] = ch /\ \A h \in from..(j - 1) : s[h] # ch
    ELSE 0

\* prefix \d+ \]  after a literal prefix
NumberedMatch(s, i, prefix) ==
    IF StartsAt(s, i, prefix)
    THEN LET d == RunLen(s, i + Len(prefix), Digits)
             close == i + Len(prefix) + d
         IN IF d >= 1 /\ close <= Len(s) /\ s[close] = "]" THEN Len(prefix) + d + 1 ELSE 0
    ELSE 0

\* r'\[\d+\]'                                               agent.py:277
MarkerMatch(s, i) == NumberedMatch(s, i, <<"[">>)

\* r'\[Source \d+\]'                                        agent.py:278
SourceMarkerMatch(s, i) == NumberedMatch(s, i, <<"[", "S", "o", "u", "r", "c", "e", " ">>)

\* r'\[[^\]]*\]\([^\)]*\)'                                  agent.py:279
LinkMatch(s, i) ==
    IF s[i] = "["
    THEN LET close == IndexFrom(s, i + 1, "]")
         IN IF close > 0 /\ close + 1 <= Len(s) /\ s[close + 1] = "("
            THEN LET paren == IndexFrom(s, close + 2, ")")
                 IN IF paren > 0 THEN paren - i + 1 ELSE 0
            ELSE 0
    ELSE 0

\* r'  +'                                                   agent.py:282
SpacesMatch(s, i) ==
    LET k == RunLen(s, i, {" "}) IN IF k >= 2 THEN k ELSE 0

\* r' +\.' and r' +,'                                       agent.py:283-284
SpacesBeforeMatch(s, i, ch) ==
    LET k == RunLen(s, i, {" "})
    IN IF k >= 1 /\ i + k <= Len(s) /\ s[i + k] = ch THEN k + 1 ELSE 0

SpacesDotMatch(s, i) == SpacesBeforeMatch(s, i, ".")

SpacesCommaMatch(s, i) == SpacesBeforeMatch(s, i, ",")

\* The patterns of generate_report, by name.  MatchLen(pat, s, i) is the length
\* of the pattern's match starting at s[i], 0 when it does not match there
\* (none of the patterns matches the empty string).
MatchLen(pat, s, i) ==
    CASE pat = "marker"       -> MarkerMatch(s, i)
      [] pat = "source"       -> SourceMarkerMatch(s, i)
      [] pat = "link"         -> LinkMatch(s, i)
      [] pat = "spaces"       -> SpacesMatch(s, i)
      [] pat = "spaces_dot"   -> SpacesDotMatch(s, i)
      [] pat = "spaces_comma" -> SpacesCommaMatch(s, i)

\* re.sub(pat, repl, s): leftmost, non-overlapping matches, scanned left to right
ReSub(pat, repl, s) ==
    LET out[i \in 1..(Len(s) + 1)] ==
            IF i > Len(s) THEN <<>>
            ELSE LET m == MatchLen(pat, s, i)
                 IN IF m > 0 THEN repl \o out[i + m] ELSE <<s[i]>> \o out[i + 1]
    IN out[1]

\* Remove any citation patterns the LLM might have added     agent.py:276-279
StripCitations(s) ==
    ReSub("link", <<>>, ReSub("source", <<>>, ReSub("marker", <<>>, s)))

\* Clean up extra spaces                                     agent.py:281-284
CleanSpaces(s) ==
    ReSub("spaces_comma", <<",">>, ReSub("spaces_dot", <<".">>, ReSub("spaces", <<" ">>, s)))

\* The literals of generate_report, each kept as one element of a Text
\* (the emoji of the two headings are left out).
FALLBACK_REPORT ==
    <<"## Insufficient Information\n\nI was unable to find enough relevant information to answer your question.\n\n**Possible reasons:**\n- The topic may be too niche or recent\n- Search results were not relevant to your specific question\n- The query may need to be rephrased\n\n**Suggestions:**\n- Try rephrasing your question with more specific keywords\n- Break down complex questions into simpler parts\n- Check if the topic has recent coverage online">>

REFERENCES_HEADER ==
    <<"\n\n---\n\n## References\n\n",
      "The following sources were used to compile this report:\n\n">>

\* ReferenceEntry without the url test: a link is written for an empty url too
ReferenceEntry_AlwaysLink(source) ==
    Str(source.num) \o <<".", " ", "[">> \o source.title \o <<"]", "(">>
    \o source.url \o <<")", "\n", "\n">>

\* one entry of the References section                       agent.py:290-296
ReferenceEntry(source) ==
    IF source.url # <<>>
    THEN Str(source.num) \o <<".", " ", "[">> \o source.title \o <<"]", "(">>
         \o source.url \o <<")", "\n", "\n">>
    ELSE Str(source.num) \o <<".", " ">> \o source.title \o <<"\n", "\n">>

RECURSIVE ReferenceEntries(_)
ReferenceEntries(srcs) ==
    IF srcs = <<>> THEN <<>> ELSE ReferenceEntry(Head(srcs)) \o ReferenceEntries(Tail(srcs))

\* the References section                                    agent.py:286-296
References(srcs) == REFERENCES_HEADER \o ReferenceEntries(srcs)

\* NoEvidence without the test of sources
NoEvidence_ContextOnly(ctx, srcs) == ctx = <<>> \/ StripIsEmpty(ctx)

\* if not context or context.strip() == "" or not sources    agent.py:219
NoEvidence(ctx, srcs) == ctx = <<>> \/ StripIsEmpty(ctx) \/ srcs = <<>>

\* report + references                                       agent.py:298
ComposeReport(body, srcs) == body \o References(srcs)

\* generate_report(query, context, sources) with the completion call's outcome llm
generate_report(ctx, srcs, llm) ==
    IF NoEvidence(ctx, srcs)
    THEN [raised |-> FALSE, report |-> FALLBACK_REPORT, calls |-> 0]
    ELSE IF llm.kind = "raise"
    THEN [raised |-> TRUE, report |-> <<>>, calls |-> 1]
    ELSE [raised |-> FALSE,
          report |-> ComposeReport(CleanSpaces(StripCitations(llm.text)), srcs),
          calls  |-> 1]

----------------------------------------------------------------------------
(* Inputs of the direct calls of generate_report *)

NarrAlphabet == {"[", "]", "1", "2", " ", ".", ",", "x"}

SampleNarratives ==
    { <<"x", " ", "[", "1", "]", ".">>,
      <<"x", " ", "[", "1", "]", ".", " ", "x", " ", "[", "2", "]", ".">>,
      <<"[", "[", "1", "]", "2", "]">>,
      <<"x", "[", "S", "o", "u", "r", "c", "e", " ", "1", "2", "]", ".">>,
      <<"x", " ", "[", "x", "]", "(", "u", ")", " ", ".">>,
      <<"[", "1", "[", "x", "]", "(", "u", ")", "]">>,
      <<"x", " ", " ", " ", ",", "x", " ", " ", ".">> }

Narratives == SeqsUpTo(NarrAlphabet, MaxNarr) \cup SampleNarratives

NarrativeOutcomes ==
    { [kind |-> "raise"] } \cup { [kind |-> "text", text |-> t] : t \in Narratives }

\* Sources as filter_results numbers them: num is the position in the list.
SourceLists ==
    UNION { { [j \in 1..k |-> [num |-> j, title |-> TitleOf(j),
                               url |-> IF j \in withUrl THEN UrlOf(j) ELSE <<>>]] :
                withUrl \in SUBSET (1..k) } : k \in 0..MaxSources }

SampleContexts ==
    { <<>>,
      RunsOf(<<" ", "\n", " ">>),
      ContextBlock(1, Rep("a", 3)) }

----------------------------------------------------------------------------
(* The planner and the search (agent.py:35-101), as research() uses them *)

QueryOf(p) == <<"q">> \o Str(p)

\* plan_research raises (the call, json.loads or result["queries"]) or
\* returns the list of queries
PlanOutcomes ==
    { [kind |-> "raise", queries |-> <<>>] }
    \cup { [kind |-> "plan", queries |-> [p \in 1..k |-> QueryOf(p)]] : k \in 0..MaxQueries }

\* tavily.search raises, or returns up to max_results=5 results
SearchOutcomes ==
    { [kind |-> "raise", count |-> 0] }
    \cup { [kind |-> "hits", count |-> m] : m \in {0, 1, MAX_RESULTS_PER_QUERY} }

\* the loop of execute_search: a failing query is skipped     agent.py:81-101
RECURSIVE execute_search(_, _, _)
execute_search(queries, outs, all_results) ==
    IF queries = <<>> THEN all_results
    ELSE LET found == IF Head(outs).kind = "raise" THEN <<>>
                      ELSE [h \in 1..Head(outs).count |->
                               MakeResult(Len(all_results) + h, "short", Head(queries))]
         IN execute_search(Tail(queries), Tail(outs), all_results \o found)

----------------------------------------------------------------------------

----------------------------------------------------------------------------
Init ==
    /\ pc = "idle"
    /\ plan = <<>>
    /\ raw_results = <<>>
    /\ llm_filter = NoOutcome
    /\ relevant_indices = <<>>
    /\ context = <<>>
    /\ sources = <<>>
    /\ filter_calls = 0
    /\ narrative = NoOutcome
    /\ llm_calls = 0
    /\ report = <<>>
    /\ response = [status_code |-> 0]
    /\ ext_failed = FALSE

\* A direct call filter_results(query, raw_results)
FilterResultsCall ==
    /\ pc = "idle"
    /\ \E raw \in RawResultLists :
         \E resp \in (IF raw = <<>> THEN {NoOutcome} ELSE FilterOutcomes(Len(raw))) :
            LET r == filter_results(raw, resp)
            IN /\ raw_results' = raw
               /\ llm_filter' = resp
               /\ relevant_indices' = r.selection
               /\ context' = r.context
               /\ sources' = r.sources
               /\ filter_calls' = filter_calls + r.calls
    /\ pc' = "filtered"
    /\ UNCHANGED <<plan, narrative, llm_calls, report, response, ext_failed>>

\* A direct call generate_report(query, context, sources)
GenerateReportCall ==
    /\ pc = "idle"
    /\ \E ctx \in SampleContexts, srcs \in SourceLists :
         \E llm \in (IF NoEvidence(ctx, srcs) THEN {NoOutcome} ELSE NarrativeOutcomes) :
            LET r == generate_report(ctx, srcs, llm)
            IN /\ context' = ctx
               /\ sources' = srcs
               /\ narrative' = llm
               /\ llm_calls' = llm_calls + r.calls
               /\ report' = r.report
               /\ pc' = IF r.raised THEN "report_raised" ELSE "reported"
    /\ UNCHANGED <<plan, raw_results, llm_filter, relevant_indices, filter_calls,
                   response, ext_failed>>

----------------------------------------------------------------------------
(* POST /api/research (main.py:59-99) *)

\* except Exception: raise HTTPException(status_code=500, ...)   main.py:95-99
ResearchFailed == [status_code |-> 500, detail |-> "Research failed"]

\* return ResearchResponse(status="success", plan=plan, report=report)  main.py:89-93
ResearchSucceeded(p, rep) ==
    [status_code |-> 200, status |-> "success", plan |-> p, report |-> rep]

\* plan = plan_research(request.query)                          main.py:78
ResearchPlan ==
    /\ pc = "idle"
    /\ \E out \in PlanOutcomes :
         IF out.kind = "raise"
         THEN /\ response' = ResearchFailed
              /\ ext_failed' = TRUE
              /\ pc' = "responded"
              /\ UNCHANGED plan
         ELSE /\ plan' = out.queries
              /\ pc' = "planned"
              /\ UNCHANGED <<response, ext_failed>>
    /\ UNCHANGED <<raw_results, llm_filter, relevant_indices, context, sources,
                   filter_calls, narrative, llm_calls, report>>

\* raw_results = execute_search(plan)                           main.py:81
ResearchSearch ==
    /\ pc = "planned"
    /\ \E outs \in [1..Len(plan) -> SearchOutcomes] :
         /\ raw_results' = execute_search(plan, outs, <<>>)
         /\ ext_failed' = (ext_failed \/ \E p \in 1..Len(plan) : outs[p].kind = "raise")
    /\ pc' = "searched"
    /\ UNCHANGED <<plan, llm_filter, relevant_indices, context, sources, filter_calls,
                   narrative, llm_calls, report, response>>

\* context = filter_results(request.query, raw_results)         main.py:84
\* (the name context is bound to the whole (context, sources) tuple)
ResearchFilter ==
    /\ pc = "searched"
    /\ \E resp \in (IF raw_results = <<>> THEN {NoOutcome}
                    ELSE FilterOutcomes(Len(raw_results))) :
         LET r == filter_results(raw_results, resp)
         IN /\ llm_filter' = resp
            /\ relevant_indices' = r.selection
            /\ context' = r.context
            /\ sources' = r.sources
            /\ filter_calls' = filter_calls + r.calls
            /\ ext_failed' = (ext_failed \/ resp.kind \notin {"none", "nokey", "list"})
    /\ pc' = "composing"
    /\ UNCHANGED <<plan, raw_results, narrative, llm_calls, report, response>>

\* the positional arguments of generate_report(request.query, context)  main.py:87
ResearchComposeArgs(query, filtered) == <<query, filtered>>

\* report = generate_report(request.query, context)             main.py:87
\* A call that does not supply every parameter of the def raises TypeError
\* before the body runs; the handler's except turns it into the 500 response.
ResearchCompose ==
    /\ pc = "composing"
    /\ LET args == ResearchComposeArgs("query", <<context, sources>>)
       IN IF Len(args) # GenerateReportParams
          THEN /\ response' = ResearchFailed
               /\ UNCHANGED <<narrative, llm_calls, report, ext_failed>>
          ELSE \E llm \in (IF NoEvidence(args[2], args[3]) THEN {NoOutcome}
                           ELSE NarrativeOutcomes) :
                 LET r == generate_report(args[2], args[3], llm)
                 IN /\ narrative' = llm
                    /\ llm_calls' = llm_calls + r.calls
                    /\ report' = r.report
                    /\ ext_failed' = (ext_failed \/ r.raised)
                    /\ response' = IF r.raised THEN ResearchFailed
                                   ELSE ResearchSucceeded(plan, r.report)
    /\ pc' = "responded"
    /\ UNCHANGED <<plan, raw_results, llm_filter, relevant_indices, context, sources,
                   filter_calls>>

Next ==
    \/ FilterResultsCall
    \/ GenerateReportCall
    \/ ResearchPlan
    \/ ResearchSearch
    \/ ResearchFilter
    \/ ResearchCompose

Spec == Init /\ [][Next]_vars

----------------------------------------------------------------------------
(* Properties *)

Filtered == pc \in {"filtered", "composing"}

Reported == pc = "reported" /\ narrative.kind = "text"

\* the marker [num] of a source, as the narrative writes it
MarkerOf(num) == <<"[">> \o Str(num) \o <<"]">>

\* the number a Text of digits denotes
RECURSIVE NumberOf(_)
NumberOf(t) ==
    IF t = <<>> THEN 0
    ELSE 10 * NumberOf(SubSeq(t, 1, Len(t) - 1)) + DigitValue(t[Len(t)])

SourceNums == { sources[j].num : j \in 1..Len(sources) }

\* the report without the References section that ends it
ReportBody == SubSeq(report, 1, Len(report) - Len(References(sources)))

\* the "[num]: " that opens a context block
BlockHeader(num) == RunsOf(MarkerOf(num) \o <<":", " ">>)

\* the runs of pat occur in r from run i on (the last run may go on)
RMatchAt(r, i, pat) ==
    /\ i + Len(pat) - 1 <= Len(r)
    /\ \A j \in 1..Len(pat) :
         /\ r[i + j - 1].c = pat[j].c
         /\ IF j = Len(pat) THEN r[i + j - 1].n >= pat[j].n ELSE r[i + j - 1].n = pat[j].n

\* a block starts at the head of the context or after a blank line
AtBlockStart(r, i) == i = 1 \/ (r[i - 1].c = "\n" /\ r[i - 1].n >= 2)

\* the nums that have a "[num]: ..." block in the context
BlockNums(r) ==
    { num \in 1..Len(r) : \E i \in 1..Len(r) : AtBlockStart(r, i) /\ RMatchAt(r, i, BlockHeader(num)) }

BlockCount(r) ==
    Cardinality({ i \in 1..Len(r) :
        AtBlockStart(r, i) /\ \E num \in 1..Len(r) : RMatchAt(r, i, BlockHeader(num)) })

\* the blank-line-joined blocks before the cap is applied
JoinedBlocks == JoinParts(ContextParts(raw_results, relevant_indices))

\* C1: a request whose planner, retrieval, filter and narrative calls all
\* succeed ends in the success response carrying status, plan and report; the
\* failure response is produced only when an external call failed.
C1_SuccessUnlessExternalFailure ==
    (pc = "responded" /\ ~ext_failed) =>
        /\ response.status_code = 200
        /\ response.status = "success"
        /\ response.plan = plan
        /\ response.report = report

\* C2: for every source with a non-empty url whose marker [num] occurs in the
\* narrative, the report contains the rendered citation [[title](url)] of that
\* source, and the references entry "num. [title](url)".
C2_MarkersBecomeCitations ==
    Reported =>
        \A j \in 1..Len(sources) :
            (sources[j].url # <<>> /\ Contains(narrative.text, MarkerOf(sources[j].num))) =>
                /\ Contains(report, <<"[", "[">> \o sources[j].title \o <<"]", "(">>
                                    \o sources[j].url \o <<")", "]">>)
                /\ Contains(report, Str(sources[j].num) \o <<".", " ", "[">> \o sources[j].title
                                    \o <<"]", "(">> \o sources[j].url \o <<")">>)

\* C3: the returned context and sources agree: the context holds as many
\* "[num]: ..." blocks as there are sources, and a num has a block if and only
\* if it has a Source entry, truncated or not.
C3_ContextMatchesSources ==
    Filtered =>
        /\ BlockCount(context) = Len(sources)
        /\ BlockNums(context) = SourceNums

\* C4: for non-empty raw_results of length n, when the filter call raises,
\* returns what cannot be parsed into a list of indices, or yields no valid
\* index, the selection is exactly 0..min(3,n)-1 in order; the selection is
\* never empty.
C4_FallbackSelection ==
    (Filtered /\ raw_results # <<>>) =>
        LET n == Len(raw_results)
            noValid == \A j \in 1..Len(llm_filter.items) :
                          ~ (/\ llm_filter.items[j].t \in {"int", "bool"}
                             /\ llm_filter.items[j].v >= 0
                             /\ llm_filter.items[j].v < n)
        IN /\ (llm_filter.kind # "list" \/ noValid) =>
                  relevant_indices = [j \in 1..(IF n < 3 THEN n ELSE 3) |-> j - 1]
           /\ relevant_indices # <<>>

C4_Witness ==
    /\ pc = "filtered"
    /\ Len(raw_results) >= 4
    /\ llm_filter.kind = "list"
    /\ llm_filter.items # <<>>
    /\ relevant_indices = <<0, 1, 2>>

\* C5: the selection holds only indices of raw_results, each at most once, in
\* the order of first appearance in the response.
C5_SelectionDeduplicated ==
    Filtered =>
        /\ \A j \in 1..Len(relevant_indices) :
              relevant_indices[j] >= 0 /\ relevant_indices[j] < Len(raw_results)
        /\ \A i, j \in 1..Len(relevant_indices) :
              i # j => relevant_indices[i] # relevant_indices[j]

\* C6: the body of the report (the text before the references section) holds
\* no bare marker [n] for which there is no source numbered n.
C6_NoUnboundMarker ==
    Reported =>
        \A i \in 1..Len(ReportBody) :
            MarkerMatch(ReportBody, i) > 0 =>
                NumberOf(SubSeq(ReportBody, i + 1, i + MarkerMatch(ReportBody, i) - 2))
                    \in SourceNums

\* C7: with empty raw_results, filter_results issues no filter call and
\* returns an empty context and no sources; generate_report given no sources
\* or a blank context returns the fixed fallback document, without a narrative
\* call and without a references section.
C7_NoEvidence ==
    /\ (Filtered /\ raw_results = <<>>) =>
          filter_calls = 0 /\ context = <<>> /\ sources = <<>>
    /\ (pc \in {"reported", "report_raised"}
        /\ (sources = <<>> \/ \A i \in 1..Len(context) : context[i].c \in {" ", "\n", "\t", "\r"})) =>
          /\ pc = "reported"
          /\ report = FALLBACK_REPORT
          /\ llm_calls = 0
          /\ narrative.kind = "none"
          /\ ~ Contains(report, REFERENCES_HEADER)

C7_Witness ==
    /\ pc = "reported"
    /\ sources = <<>>
    /\ context # <<>>
    /\ \E i \in 1..Len(context) : context[i].c \notin {" ", "\n", "\t", "\r"}
    /\ report = FALLBACK_REPORT

\* the references entry the claim describes for one source
C8_Entry(source) ==
    IF source.url = <<>>
    THEN Str(source.num) \o <<".", " ">> \o source.title
    ELSE Str(source.num) \o <<".", " ", "[">> \o source.title \o <<"]", "(">>
         \o source.url \o <<")">>

RECURSIVE C8_Entries(_)
C8_Entries(srcs) ==
    IF srcs = <<>> THEN <<>>
    ELSE C8_Entry(Head(srcs)) \o <<"\n", "\n">> \o C8_Entries(Tail(srcs))

C9_ContextCap ==
    Filtered =>
        /\ RLen(JoinedBlocks) <= 15000 => context = JoinedBlocks
        /\ RLen(JoinedBlocks) > 15000 =>
              /\ RTake(context, 15000) = RTake(JoinedBlocks, 15000)
              /\ RLen(context) = 15000 + RLen(TruncationMarker)
              /\ REndsWith(context, TruncationMarker)
        /\ RLen(context) <= 15000 + 24

C9_Witness ==
    /\ pc = "filtered"
    /\ RLen(JoinedBlocks) = 15001
    /\ REndsWith(context, TruncationMarker)

\* C10: with k selected indices the sources are numbered 1..k, and the j-th
\* source carries the title and url of the raw result at the j-th selected
\* index.
C10_SourceNumbering ==
    Filtered =>
        /\ Len(sources) = Len(relevant_indices)
        /\ \A j \in 1..Len(sources) :
              /\ sources[j].num = j
              /\ sources[j].title = raw_results[relevant_indices[j] + 1].title
              /\ sources[j].url = raw_results[relevant_indices[j] + 1].url

C10_Witness ==
    /\ pc = "filtered"
    /\ Len(relevant_indices) >= 2
    /\ relevant_indices[1] > relevant_indices[2]
====
